---- MODULE Spec2Model ----
(***************************************************************************)
(* ThinkPrint Galeria Facial: the backend's registration / matching /      *)
(* gallery flow and the React front ends (microsite, dashboard,            *)
(* slideshow) that call it.                                                *)
(*                                                                         *)
(* The Flask backend is not among the source files; its handlers are       *)
(* modelled from the specification's sections 3, 4, 6, 7 and 8.  The front *)
(* ends are modelled from their source.                                    *)
(***************************************************************************)
EXTENDS Integers, Sequences, FiniteSets, TLC

(***************************************************************************)
(* Bounds of the model.                                                    *)
(***************************************************************************)
MaxParticipants == 2
MaxUploads == 2
\* Clicks on the camera toggle, and on the capture / submit button, of a
\* registration form.
MaxToggles == 1
MaxCaptures == 2
\* Media items of a slideshow.
MaxMedia == 4
\* Symbols of a pathname, and parameters of a query string.
MaxPathLen == 4
MaxParams == 2
\* Requests of the dashboard in flight: logins (with the event-list requests
\* they lead to), create-event requests, loadAnalytics calls; and the length
\* of its event list.
MaxLogins == 2
MaxCreates == 1
MaxLoads == 1
MaxListed == 2

(***************************************************************************)
(* Value domains.                                                          *)
(***************************************************************************)
\* Identifiers the backend can give an event.
EventIds == {"e1", "e2"}
\* A request whose event_id field is missing carries the empty string.
NoEvent == ""
\* The phone field of a request: empty (missing) or a number.
Phones == {"", "5511"}
\* The selfie part of a request: missing, or a file.
NoFile == "none"
Selfies == {NoFile, "selfie.jpg"}
\* Gallery tokens: opaque values.
Tokens == {"t1", "t2", "t3"}
NoToken == ""

(***************************************************************************)
(* Backend state (spec section 3).                                         *)
(***************************************************************************)
VARIABLES
    events,        \* set of identifiers of the existing events
    participants,  \* sequence of Participant rows [event, phone, selfie, token]
    uploads,       \* sequence of Upload rows [event]
    matches,       \* set of <<participant index, upload index>> pairs
    req,           \* the request the backend handled last
    resp           \* its response

beVars == <<events, participants, uploads, matches, req, resp>>

(***************************************************************************)
(* Microsite, Gallery component state.                                     *)
(***************************************************************************)
VARIABLES
    gToken,        \* the token prop (NoToken: no gallery page is open)
    gMedia,        \* media
    gLoading,      \* loading
    gError,        \* error
    gFetch         \* fetchMedia: "idle", "pending" or "done"

gVars == <<gToken, gMedia, gLoading, gError, gFetch>>

(***************************************************************************)
(* Microsite, Register component state.  Two versions of the component     *)
(* exist: the camera form (microsite/src/App.jsx) and the file form        *)
(* (unnamed/part_001).                                                     *)
(***************************************************************************)
VARIABLES
    rForm,          \* "none", "camera" or "file": the form the page shows
    rEventId,       \* the eventId prop
    rStep,          \* step
    rPhone,         \* phone
    rSelfie,        \* selfie (file form)
    rMessage,       \* message
    rSubmitting,    \* submitting
    rUseFrontCamera,\* useFrontCamera
    rStreamRef,     \* streamRef.current: a stream, or 0 for null
    rVideoSrc,      \* videoRef.current.srcObject: a stream, or 0
    rLive,          \* the acquired streams whose tracks are not stopped
    rAcquired,      \* how many streams getUserMedia has given so far
    rGum,           \* number of getUserMedia calls not yet settled
    rBlob,          \* canvas.toBlob callbacks not yet run, by canvas content
    rRequests,      \* the /register requests in flight
    rEventInfo,     \* eventInfo ("" for null)
    rLoadingEvent,  \* loadingEvent
    rEventError,    \* eventError
    rLookup,        \* fetchEvent: "idle", "pending" or "done"
    rToggles,       \* toggle clicks so far
    rCaptures       \* capture / submit clicks so far

rVars == <<rForm, rEventId, rStep, rPhone, rSelfie, rMessage, rSubmitting,
           rUseFrontCamera, rStreamRef, rVideoSrc, rLive, rAcquired, rGum,
           rBlob, rRequests, rEventInfo, rLoadingEvent, rEventError, rLookup,
           rToggles, rCaptures>>

(***************************************************************************)
(* Slideshow App state (unnamed/part_002).                                 *)
(***************************************************************************)
VARIABLES
    sEventId,      \* eventId: params.get('event'), NoEvent when null or ''
    sMedia,        \* media
    sCurrent,      \* current
    sError,        \* error
    sFetch,        \* fetchMedia: "idle", "pending" or "done"
    sTimer         \* number of interval timers set and not cleared

sVars == <<sEventId, sMedia, sCurrent, sError, sFetch, sTimer>>

(***************************************************************************)
(* Microsite App: the URL and the view chosen for it.                      *)
(***************************************************************************)
VARIABLES
    uPath,         \* window.location.pathname, as a sequence of symbols
    uSearch,       \* window.location.search, as a sequence of [key, value]
    uView,         \* "none" before App renders, then the view it returned
    uProp          \* the token or eventId prop given to the view

uVars == <<uPath, uSearch, uView, uProp>>

(***************************************************************************)
(* Dashboard App state (dashboard/src/App.jsx; unnamed/part_000 is the     *)
(* version without analytics).                                             *)
(***************************************************************************)
VARIABLES
    dVersion,       \* "analytics" (dashboard/src/App.jsx) or "basic"
    dToken,         \* token ("" for null)
    dStored,        \* localStorage's tp_token ("" when absent)
    dUsername,      \* username
    dPassword,      \* password
    dError,         \* error
    dEvents,        \* events (the ids of the listed events)
    dNewEvent,      \* newEvent
    dActiveView,    \* activeView
    dSelectedEvent, \* selectedEvent ("" for null)
    dAnalytics,     \* analytics (NoAnalytics for null)
    dLogins,        \* number of login requests in flight
    dFetches,       \* event-list requests in flight: the bearer of each
    dCreates,       \* create-event requests in flight: [bearer, body]
    dLoads          \* loadAnalytics calls in progress

dForm == <<dUsername, dPassword>>
dAnalyticsVars == <<dActiveView, dSelectedEvent, dAnalytics>>
dVars == <<dVersion, dToken, dStored, dForm, dError, dEvents, dNewEvent,
           dAnalyticsVars, dLogins, dFetches, dCreates, dLoads>>

\* The state of every front end.
feVars == <<gVars, rVars, sVars, uVars, dVars>>

NoReq == [op |-> "none", event |-> NoEvent, phone |-> "", selfie |-> NoFile,
          token |-> NoToken]
NoResp == [ok |-> TRUE, status |-> 0, error |-> "", media |-> <<>>]

Request(op, e, ph, s, t) ==
    [op |-> op, event |-> e, phone |-> ph, selfie |-> s, token |-> t]
OkResponse(status, media) ==
    [ok |-> TRUE, status |-> status, error |-> "", media |-> media]
ErrorResponse(status, error) ==
    [ok |-> FALSE, status |-> status, error |-> error, media |-> <<>>]

\* Tokens held by some participant.
IssuedTokens == {participants[i].token : i \in 1..Len(participants)}

\* Indices of the uploads of event e.
UploadsOf(e) == {u \in 1..Len(uploads) : uploads[u].event = e}

\* The uploads matched to participant p.
MatchedTo(p) == {u \in 1..Len(uploads) : <<p, u>> \in matches}

\* A set of upload indices as the list the API returns (by upload order).
RECURSIVE MediaList(_)
MediaList(S) ==
    IF S = {} THEN <<>>
    ELSE LET u == CHOOSE x \in S : \A y \in S : x <= y
         IN <<u>> \o MediaList(S \ {u})

\* match_faces: a stub; it returns no match, or every upload of the event.
MatchFacesAnyEvent(e) == {{}, 1..Len(uploads)}
MatchFaces(e) == {{}, UploadsOf(e)}

\* The token given to a new participant: random, opaque, unique.
NewTokenAny == Tokens
NewToken == Tokens \ IssuedTokens

\* The validation error of a registration request, "" when it is valid.
RegisterErrorNoEventCheck(e, ph, s) ==
    IF ph = "" THEN "phone is required"
    ELSE IF s = NoFile THEN "selfie is required"
    ELSE ""
RegisterError(e, ph, s) ==
    IF ph = "" THEN "phone is required"
    ELSE IF s = NoFile THEN "selfie is required"
    ELSE IF e \notin events THEN "event not found"
    ELSE ""

\* The validation error of an upload request, "" when it is valid.
UploadErrorNoEventCheck(e) ==
    IF e = NoEvent THEN "event_id is required" ELSE ""
UploadError(e) ==
    IF e = NoEvent THEN "event_id is required"
    ELSE IF e \notin events THEN "event not found"
    ELSE ""

\* POST /api/events: an administrator creates an event.
BackendCreateEvent(e) ==
    /\ e \in EventIds \ events
    /\ events' = events \cup {e}
    /\ UNCHANGED <<participants, uploads, matches>>

\* POST /api/upload: the watch folder sends a file for event e.
BackendUpload(e) ==
    IF UploadError(e) # ""
    THEN /\ resp' = ErrorResponse(400, UploadError(e))
         /\ UNCHANGED <<events, participants, uploads, matches>>
    ELSE /\ Len(uploads) < MaxUploads
         /\ uploads' = Append(uploads, [event |-> e])
         /\ resp' = OkResponse(201, <<>>)
         /\ UNCHANGED <<events, participants, matches>>

\* POST /api/register (multipart: event_id, phone, selfie).
BackendRegister(e, ph, s) ==
    IF RegisterError(e, ph, s) # ""
    THEN /\ resp' = ErrorResponse(IF RegisterError(e, ph, s) = "event not found"
                                  THEN 404 ELSE 400,
                                  RegisterError(e, ph, s))
         /\ UNCHANGED <<events, participants, uploads, matches>>
    ELSE /\ Len(participants) < MaxParticipants
         /\ \E t \in NewToken, m \in MatchFaces(e) :
              /\ participants' = Append(participants,
                     [event |-> e, phone |-> ph, selfie |-> s, token |-> t])
              /\ matches' = matches \cup
                     {<<Len(participants) + 1, u>> : u \in m}
         /\ resp' = OkResponse(201, <<>>)
         /\ UNCHANGED <<events, uploads>>

\* The response of GET /api/gallery/:token in the current state.
GalleryResponseWholeEvent(t) ==
    IF t \in IssuedTokens
    THEN OkResponse(200, MediaList(UploadsOf(
             participants[CHOOSE p \in 1..Len(participants) :
                              participants[p].token = t].event)))
    ELSE ErrorResponse(404, "gallery not found")
GalleryResponse(t) ==
    IF t \in IssuedTokens
    THEN OkResponse(200, MediaList(MatchedTo(
             CHOOSE p \in 1..Len(participants) : participants[p].token = t)))
    ELSE ErrorResponse(404, "gallery not found")

\* GET /api/gallery/:token.
BackendGallery(t) ==
    /\ resp' = GalleryResponse(t)
    /\ UNCHANGED <<events, participants, uploads, matches>>

(***************************************************************************)
(* The API as any client may call it.                                      *)
(***************************************************************************)
ApiCreateEvent ==
    \E e \in EventIds :
        /\ BackendCreateEvent(e)
        /\ req' = Request("create_event", e, "", NoFile, NoToken)
        /\ resp' = OkResponse(201, <<>>)
        /\ UNCHANGED feVars

ApiUploadFor(E) ==
    \E e \in E :
        /\ BackendUpload(e)
        /\ req' = Request("upload", e, "", NoFile, NoToken)
        /\ UNCHANGED feVars

ApiUpload == ApiUploadFor(EventIds \cup {NoEvent})

ApiRegisterFor(E, P, S) ==
    \E e \in E, ph \in P, s \in S :
        /\ BackendRegister(e, ph, s)
        /\ req' = Request("register", e, ph, s, NoToken)
        /\ UNCHANGED feVars

ApiRegister == ApiRegisterFor(EventIds \cup {NoEvent}, Phones, Selfies)

ApiGallery ==
    \E t \in Tokens :
        /\ BackendGallery(t)
        /\ req' = Request("gallery", NoEvent, "", NoFile, t)
        /\ UNCHANGED feVars

BackendInit ==
    /\ events = {}
    /\ participants = <<>>
    /\ uploads = <<>>
    /\ matches = {}
    /\ req = NoReq
    /\ resp = NoResp

(***************************************************************************)
(* Microsite: the Gallery component (microsite/src/App.jsx).               *)
(***************************************************************************)
GalleryInit ==
    /\ gToken = NoToken
    /\ gMedia = <<>>
    /\ gLoading = TRUE
    /\ gError = ""
    /\ gFetch = "idle"

\* x || d for a string x.
OrDefault(x, d) == IF x = "" THEN d ELSE x

\* fetchMedia after res.json() gave data for response r.
GalleryOnResponseNoFinally(r) ==
    /\ IF r.ok
       THEN /\ gMedia' = r.media
            /\ gLoading' = FALSE
            /\ UNCHANGED gError
       ELSE /\ gError' = OrDefault(r.error, "Erro ao carregar galeria")
            /\ UNCHANGED <<gMedia, gLoading>>
    /\ gFetch' = "done"
GalleryOnResponse(r) ==
    /\ IF r.ok
       THEN /\ gMedia' = r.media
            /\ UNCHANGED gError
       ELSE /\ gError' = OrDefault(r.error, "Erro ao carregar galeria")
            /\ UNCHANGED gMedia
    /\ gLoading' = FALSE
    /\ gFetch' = "done"

\* fetchMedia when fetch or res.json() threw.
GalleryOnFailure ==
    /\ gError' = "Erro de conexao"
    /\ gLoading' = FALSE
    /\ gFetch' = "done"
    /\ UNCHANGED gMedia

\* What the component renders.
GalleryView ==
    IF gLoading THEN "loading"
    ELSE IF gError # "" THEN "error"
    ELSE "media"

\* The browser opens /gallery/<t>: the component mounts and its effect
\* starts fetchMedia.
GalleryOpen ==
    \E t \in Tokens :
        /\ gToken' = t
        /\ gMedia' = <<>>
        /\ gLoading' = TRUE
        /\ gError' = ""
        /\ gFetch' = "pending"
        /\ UNCHANGED <<beVars, rVars, sVars, uVars, dVars>>

\* The backend answers the pending request.
GalleryFetchAnswered ==
    /\ gFetch = "pending"
    /\ BackendGallery(gToken)
    /\ req' = Request("gallery", NoEvent, "", NoFile, gToken)
    /\ GalleryOnResponse(resp')
    /\ UNCHANGED <<gToken, rVars, sVars, uVars, dVars>>

\* The pending request fails to connect.
GalleryFetchFailed ==
    /\ gFetch = "pending"
    /\ GalleryOnFailure
    /\ UNCHANGED <<gToken, beVars, rVars, sVars, uVars, dVars>>

GalleryNext == GalleryOpen \/ GalleryFetchAnswered \/ GalleryFetchFailed

\* Other clients of the backend while a gallery page is open.  Requests
\* that fail validation change no row, so only valid ones are drawn.
GalleryEnvUpload == ApiUploadFor(events)
GalleryEnvRegister == ApiRegisterFor(events, {"5511"}, {"selfie.jpg"})

(***************************************************************************)
(* Microsite: the Register component, camera form                          *)
(* (microsite/src/App.jsx).                                                *)
(***************************************************************************)
\* Responses of POST /api/register as a form may receive them: data.message
\* and data.error may be missing.
RegisterResponses ==
    {[ok |-> TRUE, message |-> m, error |-> ""] : m \in {"", "Cadastro realizado"}}
    \cup {[ok |-> FALSE, message |-> "", error |-> e] :
              e \in {"", "event not found"}}

\* Responses of GET /api/public/events/:id.
LookupResponses ==
    {[ok |-> TRUE, name |-> "Formatura", error |-> ""]}
    \cup {[ok |-> FALSE, name |-> "", error |-> e] : e \in {"", "event not found"}}

\* useState / useRef initial values of a Register component.
RegisterInitial ==
    /\ rStep = "phone"
    /\ rPhone = ""
    /\ rSelfie = NoFile
    /\ rMessage = ""
    /\ rSubmitting = FALSE
    /\ rUseFrontCamera = TRUE
    /\ rStreamRef = 0
    /\ rVideoSrc = 0
    /\ rLive = {}
    /\ rAcquired = 0
    /\ rGum = 0
    /\ rBlob = [none |-> 0, image |-> 0]
    /\ rRequests = <<>>
    /\ rEventInfo = ""
    /\ rEventError = ""
    /\ rToggles = 0
    /\ rCaptures = 0

\* No registration page is open.
RegisterClosed ==
    /\ rForm = "none"
    /\ rEventId = NoEvent
    /\ rLoadingEvent = TRUE
    /\ rLookup = "idle"
    /\ RegisterInitial

\* The camera form is mounted for event e; its effect has started fetchEvent.
CameraFormInit ==
    /\ rForm = "camera"
    /\ rEventId \in EventIds
    /\ rLoadingEvent = TRUE
    /\ rLookup = "pending"
    /\ RegisterInitial

\* The browser's constraint validation of a form whose inputs are
\* `required`: the submit event fires only when each has a value.
RequiredFilled(values) == \A i \in 1..Len(values) : values[i] # ""

\* The props of the component.
rFixed == <<rForm, rEventId>>

\* fetchEvent settles with response r.
FetchEventAnswered ==
    /\ rForm = "camera"
    /\ rLookup = "pending"
    /\ \E r \in LookupResponses :
          IF r.ok
          THEN /\ rEventInfo' = r.name
               /\ UNCHANGED rEventError
          ELSE /\ rEventError' = OrDefault(r.error, "Evento nao encontrado")
               /\ UNCHANGED rEventInfo
    /\ rLoadingEvent' = FALSE
    /\ rLookup' = "done"
    /\ UNCHANGED <<rFixed, rStep, rPhone, rSelfie, rMessage, rSubmitting,
                   rUseFrontCamera, rStreamRef, rVideoSrc, rLive, rAcquired,
                   rGum, rBlob, rRequests, rToggles, rCaptures>>
    /\ UNCHANGED <<beVars, gVars, sVars, uVars, dVars>>

\* fetchEvent fails to connect.
FetchEventFailed ==
    /\ rForm = "camera"
    /\ rLookup = "pending"
    /\ rEventError' = "Erro de conexao ao carregar evento"
    /\ rLoadingEvent' = FALSE
    /\ rLookup' = "done"
    /\ UNCHANGED <<rFixed, rStep, rPhone, rSelfie, rMessage, rSubmitting,
                   rUseFrontCamera, rStreamRef, rVideoSrc, rLive, rAcquired,
                   rGum, rBlob, rRequests, rEventInfo, rToggles, rCaptures>>
    /\ UNCHANGED <<beVars, gVars, sVars, uVars, dVars>>

\* The phone input's onChange (rendered in the phone step only).
CameraSetPhone ==
    /\ rForm = "camera"
    /\ rStep = "phone"
    /\ \E ph \in Phones : rPhone' = ph
    /\ UNCHANGED <<rFixed, rStep, rSelfie, rMessage, rSubmitting,
                   rUseFrontCamera, rStreamRef, rVideoSrc, rLive, rAcquired,
                   rGum, rBlob, rRequests, rEventInfo, rLoadingEvent,
                   rEventError, rLookup, rToggles, rCaptures>>
    /\ UNCHANGED <<beVars, gVars, sVars, uVars, dVars>>

\* startCamera(front) up to its await: a held stream is stopped and
\* released, then getUserMedia is called.
StartCamera ==
    /\ IF rStreamRef # 0
       THEN /\ rLive' = rLive \ {rStreamRef}
            /\ rStreamRef' = 0
       ELSE UNCHANGED <<rLive, rStreamRef>>
    /\ rGum' = rGum + 1

\* handlePhoneSubmit.
HandlePhoneSubmit ==
    IF rPhone = ""
    THEN UNCHANGED <<rStep, rLive, rStreamRef, rGum>>
    ELSE /\ rStep' = "camera"
         /\ StartCamera

\* The phone form is submitted ("Continuar").
CameraPhoneSubmit ==
    /\ rForm = "camera"
    /\ rStep = "phone"
    /\ RequiredFilled(<<rPhone>>)
    /\ HandlePhoneSubmit
    /\ UNCHANGED <<rFixed, rPhone, rSelfie, rMessage, rSubmitting,
                   rUseFrontCamera, rVideoSrc, rAcquired, rBlob, rRequests,
                   rEventInfo, rLoadingEvent, rEventError, rLookup, rToggles,
                   rCaptures>>
    /\ UNCHANGED <<beVars, gVars, sVars, uVars, dVars>>

\* handleToggleCamera (the button is rendered in the camera step).
CameraToggle ==
    /\ rForm = "camera"
    /\ rStep = "camera"
    /\ rToggles < MaxToggles
    /\ rToggles' = rToggles + 1
    /\ rUseFrontCamera' = ~rUseFrontCamera
    /\ StartCamera
    /\ UNCHANGED <<rFixed, rStep, rPhone, rSelfie, rMessage, rSubmitting,
                   rVideoSrc, rAcquired, rBlob, rRequests, rEventInfo,
                   rLoadingEvent, rEventError, rLookup, rCaptures>>
    /\ UNCHANGED <<beVars, gVars, sVars, uVars, dVars>>

\* startCamera after its await: getUserMedia gave a stream.
GetUserMediaResolved ==
    /\ rForm = "camera"
    /\ rGum > 0
    /\ rGum' = rGum - 1
    /\ rAcquired' = rAcquired + 1
    /\ rLive' = rLive \cup {rAcquired + 1}
    /\ rStreamRef' = rAcquired + 1
    /\ rVideoSrc' = IF rStep = "camera" THEN rAcquired + 1 ELSE rVideoSrc
    /\ UNCHANGED <<rFixed, rStep, rPhone, rSelfie, rMessage, rSubmitting,
                   rUseFrontCamera, rBlob, rRequests, rEventInfo,
                   rLoadingEvent, rEventError, rLookup, rToggles, rCaptures>>
    /\ UNCHANGED <<beVars, gVars, sVars, uVars, dVars>>

\* startCamera's catch: getUserMedia was refused.
GetUserMediaRejected ==
    /\ rForm = "camera"
    /\ rGum > 0
    /\ rGum' = rGum - 1
    /\ rMessage' = "Nao foi possivel acessar a camera. Verifique as permissoes."
    /\ UNCHANGED <<rFixed, rStep, rPhone, rSelfie, rSubmitting,
                   rUseFrontCamera, rStreamRef, rVideoSrc, rLive, rAcquired,
                   rBlob, rRequests, rEventInfo, rLoadingEvent, rEventError,
                   rLookup, rToggles, rCaptures>>
    /\ UNCHANGED <<beVars, gVars, sVars, uVars, dVars>>

\* handleCapture up to canvas.toBlob: the canvas takes the video's size
\* and frame; it has pixels only if the video ever got a stream.  (The
\* button is rendered in the camera step, where videoRef.current is set.)
CameraCapture ==
    /\ rForm = "camera"
    /\ rStep = "camera"
    /\ ~rSubmitting
    /\ rCaptures < MaxCaptures
    /\ rCaptures' = rCaptures + 1
    /\ rBlob' = IF rVideoSrc = 0
                THEN [rBlob EXCEPT !.none = @ + 1]
                ELSE [rBlob EXCEPT !.image = @ + 1]
    /\ UNCHANGED <<rFixed, rStep, rPhone, rSelfie, rMessage, rSubmitting,
                   rUseFrontCamera, rStreamRef, rVideoSrc, rLive, rAcquired,
                   rGum, rRequests, rEventInfo, rLoadingEvent, rEventError,
                   rLookup, rToggles>>
    /\ UNCHANGED <<beVars, gVars, sVars, uVars, dVars>>

\* The toBlob callback up to its await, given the blob (NoFile for null).
OnBlobNoCheck(blob) ==
    /\ rSubmitting' = TRUE
    /\ rRequests' = Append(rRequests,
           [event |-> rEventId, phone |-> rPhone, selfie |-> blob])
    /\ UNCHANGED rMessage
OnBlob(blob) ==
    IF blob = NoFile
    THEN /\ rMessage' = "Erro ao capturar selfie"
         /\ UNCHANGED <<rSubmitting, rRequests>>
    ELSE /\ rSubmitting' = TRUE
         /\ rRequests' = Append(rRequests,
                [event |-> rEventId, phone |-> rPhone, selfie |-> "selfie.jpg"])
         /\ UNCHANGED rMessage

\* A toBlob callback runs: with null when the canvas has no pixels, and
\* with null or the image otherwise.
CameraBlobReady ==
    /\ rForm = "camera"
    /\ \E kind \in {"none", "image"} :
          /\ rBlob[kind] > 0
          /\ rBlob' = [rBlob EXCEPT ![kind] = @ - 1]
          /\ \E blob \in (IF kind = "none" THEN {NoFile}
                            ELSE {NoFile, "selfie.jpg"}) : OnBlob(blob)
    /\ UNCHANGED <<rFixed, rStep, rPhone, rSelfie, rUseFrontCamera,
                   rStreamRef, rVideoSrc, rLive, rAcquired, rGum, rEventInfo,
                   rLoadingEvent, rEventError, rLookup, rToggles, rCaptures>>
    /\ UNCHANGED <<beVars, gVars, sVars, uVars, dVars>>

\* s without its i-th element.
RemoveAt(s, i) == SubSeq(s, 1, i - 1) \o SubSeq(s, i + 1, Len(s))

\* The finally block of the toBlob callback.
CameraFinallyRestarts ==
    /\ rSubmitting' = FALSE
    /\ rStep' = "phone"
    /\ IF rStreamRef # 0
       THEN /\ rLive' = rLive \ {rStreamRef}
            /\ rStreamRef' = 0
       ELSE UNCHANGED <<rLive, rStreamRef>>
CameraFinally ==
    /\ rSubmitting' = FALSE
    /\ rStep' = "done"
    /\ IF rStreamRef # 0
       THEN /\ rLive' = rLive \ {rStreamRef}
            /\ rStreamRef' = 0
       ELSE UNCHANGED <<rLive, rStreamRef>>

\* The toBlob callback after its await, given the response r to the i-th
\* /register request in flight.
OnRegisterResponse(i, r) ==
    /\ rForm = "camera"
    /\ rRequests' = RemoveAt(rRequests, i)
    /\ rMessage' = IF r.ok THEN r.message
                   ELSE OrDefault(r.error, "Erro ao realizar cadastro")
    /\ CameraFinally
    /\ UNCHANGED <<rFixed, rPhone, rSelfie, rUseFrontCamera, rVideoSrc,
                   rAcquired, rGum, rBlob, rEventInfo, rLoadingEvent,
                   rEventError, rLookup, rToggles, rCaptures>>
    /\ UNCHANGED <<beVars, gVars, sVars, uVars, dVars>>

\* A /register request is answered.
CameraRegisterAnswered ==
    \E i \in 1..Len(rRequests), r \in RegisterResponses :
        OnRegisterResponse(i, r)

\* The text of the done view.
DefaultDoneText == "Perfeito! Cadastro realizado."
DoneText == OrDefault(rMessage, DefaultDoneText)

\* The toBlob callback's catch: a /register request fails to connect.
CameraRegisterFailed ==
    /\ rForm = "camera"
    /\ \E i \in 1..Len(rRequests) : rRequests' = RemoveAt(rRequests, i)
    /\ rMessage' = "Erro de conexao"
    /\ CameraFinally
    /\ UNCHANGED <<rFixed, rPhone, rSelfie, rUseFrontCamera, rVideoSrc,
                   rAcquired, rGum, rBlob, rEventInfo, rLoadingEvent,
                   rEventError, rLookup, rToggles, rCaptures>>
    /\ UNCHANGED <<beVars, gVars, sVars, uVars, dVars>>

(***************************************************************************)
(* Microsite: the Register component, file form (unnamed/part_001).        *)
(***************************************************************************)
\* The file form is mounted for event e.
FileFormInit ==
    /\ rForm = "file"
    /\ rEventId \in EventIds
    /\ rLoadingEvent = TRUE
    /\ rLookup = "idle"
    /\ RegisterInitial

fileUnused == <<rStep, rUseFrontCamera, rStreamRef, rVideoSrc, rLive,
                rAcquired, rGum, rBlob, rEventInfo, rLoadingEvent,
                rEventError, rLookup, rToggles>>

\* The phone input's onChange.
FileSetPhone ==
    /\ rForm = "file"
    /\ \E ph \in Phones : rPhone' = ph
    /\ UNCHANGED <<rFixed, rSelfie, rMessage, rSubmitting, rRequests,
                   rCaptures, fileUnused>>
    /\ UNCHANGED <<beVars, gVars, sVars, uVars, dVars>>

\* The file input's onChange: e.target.files[0], undefined when the
\* selection is emptied.
FileSetSelfie ==
    /\ rForm = "file"
    /\ \E f \in Selfies : rSelfie' = f
    /\ UNCHANGED <<rFixed, rPhone, rMessage, rSubmitting, rRequests,
                   rCaptures, fileUnused>>
    /\ UNCHANGED <<beVars, gVars, sVars, uVars, dVars>>

\* handleSubmit up to its await.
HandleSubmit ==
    IF rSelfie = NoFile
    THEN /\ rMessage' = "Por favor, selecione uma selfie."
         /\ UNCHANGED <<rSubmitting, rRequests>>
    ELSE /\ rSubmitting' = TRUE
         /\ rRequests' = Append(rRequests,
                [event |-> rEventId, phone |-> rPhone, selfie |-> rSelfie])
         /\ UNCHANGED rMessage

\* The value of the file input as constraint validation sees it.
FileInputValue == IF rSelfie = NoFile THEN "" ELSE rSelfie

\* The form is submitted ("Enviar"; the button is disabled while
\* submitting, and both inputs are `required`).
FileSubmit ==
    /\ rForm = "file"
    /\ ~rSubmitting
    /\ RequiredFilled(<<rPhone, FileInputValue>>)
    /\ rCaptures < MaxCaptures
    /\ rCaptures' = rCaptures + 1
    /\ HandleSubmit
    /\ UNCHANGED <<rFixed, rPhone, rSelfie, fileUnused>>
    /\ UNCHANGED <<beVars, gVars, sVars, uVars, dVars>>

\* handleSubmit after its await: the request is answered.
FileRegisterAnswered ==
    /\ rForm = "file"
    /\ \E i \in 1..Len(rRequests), r \in RegisterResponses :
          /\ rRequests' = RemoveAt(rRequests, i)
          /\ rMessage' = IF r.ok THEN r.message
                         ELSE OrDefault(r.error, "Erro ao realizar cadastro")
    /\ rSubmitting' = FALSE
    /\ UNCHANGED <<rFixed, rPhone, rSelfie, rCaptures, fileUnused>>
    /\ UNCHANGED <<beVars, gVars, sVars, uVars, dVars>>

\* handleSubmit's catch: the request fails to connect.
FileRegisterFailed ==
    /\ rForm = "file"
    /\ \E i \in 1..Len(rRequests) : rRequests' = RemoveAt(rRequests, i)
    /\ rMessage' = "Erro de conexao"
    /\ rSubmitting' = FALSE
    /\ UNCHANGED <<rFixed, rPhone, rSelfie, rCaptures, fileUnused>>
    /\ UNCHANGED <<beVars, gVars, sVars, uVars, dVars>>

(***************************************************************************)
(* Slideshow App (unnamed/part_002).                                       *)
(***************************************************************************)
\* Lists of distinct media items (upload ids) of length at most MaxMedia.
MediaLists ==
    {l \in UNION {[1..n -> 1..MaxMedia] : n \in 0..MaxMedia} :
        \A i, j \in 1..Len(l) : i # j => l[i] # l[j]}

\* Responses of GET /api/slideshow/:eventId.
SlideshowResponses ==
    {[ok |-> TRUE, media |-> l, error |-> ""] : l \in MediaLists}
    \cup {[ok |-> FALSE, media |-> <<>>, error |-> e] :
              e \in {"", "event not found"}}

\* useState initial values; no page is open.
SlideshowClosed ==
    /\ sEventId = NoEvent
    /\ sMedia = <<>>
    /\ sCurrent = 0
    /\ sError = ""
    /\ sFetch = "idle"
    /\ sTimer = 0

\* The page is opened with or without an event parameter.
SlideshowInit ==
    /\ sEventId \in EventIds \cup {NoEvent}
    /\ sMedia = <<>>
    /\ sCurrent = 0
    /\ sError = ""
    /\ sFetch = "idle"
    /\ sTimer = 0

\* The timer effect for media list m: an interval is set when m has more
\* than one item (the previous one is cleared by the effect's cleanup).
TimerEffectNonEmpty(m) == Len(m) > 0
TimerEffect(m) == Len(m) > 1

\* The timers after the effect has run again for media list m: the cleanup
\* the previous run returned (if it set an interval) is called first.
RerunTimerEffect(m) ==
    sTimer - (IF TimerEffect(sMedia) THEN 1 ELSE 0)
           + (IF TimerEffect(m) THEN 1 ELSE 0)

\* The first effect: fetchMedia up to its await.
SlideshowFetchMedia ==
    /\ sFetch = "idle"
    /\ IF sEventId = NoEvent
       THEN /\ sError' = "Nenhum evento especificado"
            /\ sFetch' = "done"
       ELSE /\ sFetch' = "pending"
            /\ UNCHANGED sError
    /\ UNCHANGED <<sEventId, sMedia, sCurrent, sTimer>>
    /\ UNCHANGED <<beVars, gVars, rVars, uVars, dVars>>

\* fetchMedia after its await: the request is answered.
SlideshowFetchAnswered ==
    /\ sFetch = "pending"
    /\ \E r \in SlideshowResponses :
          IF r.ok
          THEN /\ sMedia' = r.media
               /\ sTimer' = RerunTimerEffect(r.media)
               /\ UNCHANGED sError
          ELSE /\ sError' = OrDefault(r.error, "Erro ao carregar midia")
               /\ UNCHANGED <<sMedia, sTimer>>
    /\ sFetch' = "done"
    /\ UNCHANGED <<sEventId, sCurrent>>
    /\ UNCHANGED <<beVars, gVars, rVars, uVars, dVars>>

\* fetchMedia's catch.
SlideshowFetchFailed ==
    /\ sFetch = "pending"
    /\ sError' = "Erro de conexao"
    /\ sFetch' = "done"
    /\ UNCHANGED <<sEventId, sMedia, sCurrent, sTimer>>
    /\ UNCHANGED <<beVars, gVars, rVars, uVars, dVars>>

\* The updater given to setCurrent.
AdvanceNoWrap(prev) == prev + 1
Advance(prev) == (prev + 1) % Len(sMedia)

\* The interval timer fires.
SlideshowTick ==
    /\ sTimer > 0
    /\ sCurrent' = Advance(sCurrent)
    /\ UNCHANGED <<sEventId, sMedia, sError, sFetch, sTimer>>
    /\ UNCHANGED <<beVars, gVars, rVars, uVars, dVars>>

\* What the App renders: the item media[current] (an upload id), 0 when
\* it renders a text instead (the error, the missing parameter, the empty
\* list), and -1 when media[current] is undefined.
SlideshowShown ==
    IF sError # "" \/ sEventId = NoEvent \/ Len(sMedia) = 0 THEN 0
    ELSE IF sCurrent + 1 \in 1..Len(sMedia) THEN sMedia[sCurrent + 1]
    ELSE -1

(***************************************************************************)
(* Microsite App: routing (microsite/src/App.jsx, unnamed/part_001).       *)
(***************************************************************************)
\* A pathname is a sequence of symbols: the separator "/" or a word.
PathSymbols == {"/", "gallery", "register", "tok"}
Paths == UNION {[1..n -> PathSymbols] : n \in 0..MaxPathLen}
\* A query string is a sequence of key=value parameters.
Params == [key : {"event", "other"}, value : {"", "e1"}]
Searches == UNION {[1..n -> Params] : n \in 0..MaxParams}
\* null, where a string is expected, and where a path segment is expected.
Null == "null"
NoSegment == <<>>

\* pathname.split('/'): the segments between separators, each a sequence
\* of words (<<>> is the empty string).
RECURSIVE SplitFrom(_, _, _)
SplitFrom(path, i, seg) ==
    IF i > Len(path) THEN <<seg>>
    ELSE IF path[i] = "/" THEN <<seg>> \o SplitFrom(path, i + 1, <<>>)
    ELSE SplitFrom(path, i + 1, Append(seg, path[i]))
Split(path) == SplitFrom(path, 1, <<>>)

\* .filter(Boolean): the non-empty segments.
RECURSIVE FilterBoolean(_)
FilterBoolean(parts) ==
    IF parts = <<>> THEN <<>>
    ELSE IF Head(parts) = <<>> THEN FilterBoolean(Tail(parts))
    ELSE <<Head(parts)>> \o FilterBoolean(Tail(parts))

\* getGalleryToken.
GetGalleryToken(path) ==
    LET parts == FilterBoolean(Split(path))
    IN IF Len(parts) >= 2 /\ parts[1] = <<"gallery">> /\ parts[2] # <<>>
       THEN parts[2]
       ELSE NoSegment

\* URLSearchParams.get(key): the first value under key, or null.
RECURSIVE SearchGet(_, _)
SearchGet(search, key) ==
    IF search = <<>> THEN Null
    ELSE IF Head(search).key = key THEN Head(search).value
    ELSE SearchGet(Tail(search), key)

\* getRegisterEvent.
GetRegisterEvent(search) == SearchGet(search, "event")

\* JavaScript truthiness of a string or null, and of a segment or null.
Truthy(x) == x # Null /\ x # ""
TruthySegment(x) == x # NoSegment

\* App: the view returned and its prop.
AppRegisterFirst(path, search) ==
    IF Truthy(GetRegisterEvent(search))
    THEN [view |-> "register", prop |-> <<GetRegisterEvent(search)>>]
    ELSE IF TruthySegment(GetGalleryToken(path))
    THEN [view |-> "gallery", prop |-> GetGalleryToken(path)]
    ELSE [view |-> "landing", prop |-> NoSegment]
App(path, search) ==
    IF TruthySegment(GetGalleryToken(path))
    THEN [view |-> "gallery", prop |-> GetGalleryToken(path)]
    ELSE IF Truthy(GetRegisterEvent(search))
    THEN [view |-> "register", prop |-> <<GetRegisterEvent(search)>>]
    ELSE [view |-> "landing", prop |-> NoSegment]

\* No page is open.
RouteClosed ==
    /\ uPath = <<>>
    /\ uSearch = <<>>
    /\ uView = "none"
    /\ uProp = NoSegment

\* The browser is at some URL and App has not rendered yet.
RouteInit ==
    /\ uPath \in Paths
    /\ uSearch \in Searches
    /\ uView = "none"
    /\ uProp = NoSegment

\* App renders.
RouteRender ==
    /\ uView = "none"
    /\ uView' = App(uPath, uSearch).view
    /\ uProp' = App(uPath, uSearch).prop
    /\ UNCHANGED <<uPath, uSearch>>
    /\ UNCHANGED <<beVars, gVars, rVars, sVars, dVars>>

(***************************************************************************)
(* Dashboard App (dashboard/src/App.jsx, unnamed/part_000).                *)
(***************************************************************************)
\* Bearer tokens POST /api/login gives.
AuthTokens == {"tokA", "tokB"}

\* Responses of POST /api/login; data.error may be missing.
LoginResponses ==
    {[ok |-> TRUE, token |-> t, error |-> ""] : t \in AuthTokens}
    \cup {[ok |-> FALSE, token |-> "", error |-> e] :
              e \in {"", "invalid credentials"}}

\* Event lists GET /api/events gives.
EventLists == {<<>>, <<"e1">>}

\* Responses of POST /api/events.
CreateResponses ==
    {[ok |-> TRUE, id |-> "e2", error |-> ""]}
    \cup {[ok |-> FALSE, id |-> "", error |-> e] : e \in {"", "name is required"}}

\* The initial value of newEvent.
DefaultNewEvent ==
    [name |-> "", phrase |-> "", expiration_days |-> 30, logo_url |-> ""]

\* analytics = null.
NoAnalytics ==
    [isNull |-> TRUE, event |-> [id |-> "", ok |-> FALSE], totalUploads |-> 0]

\* Bodies GET /api/events/<id> gives: the event of that id, or an error
\* object.
EventBodies ==
    {[id |-> e, ok |-> TRUE] : e \in EventIds} \cup {[id |-> "", ok |-> FALSE]}

\* Lengths of the arrays GET /api/events/<id>/uploads gives.
UploadCounts == 0..1

\* No dashboard page is open.
DashboardClosed ==
    /\ dVersion = "none"
    /\ dToken = ""
    /\ dStored = ""
    /\ dUsername = ""
    /\ dPassword = ""
    /\ dError = ""
    /\ dEvents = <<>>
    /\ dNewEvent = DefaultNewEvent
    /\ dActiveView = "events"
    /\ dSelectedEvent = ""
    /\ dAnalytics = NoAnalytics
    /\ dLogins = 0
    /\ dFetches = <<>>
    /\ dCreates = <<>>
    /\ dLoads = <<>>

\* The effect on [token]: fetchEvents is called when the token has changed
\* (or on mount) and is not null; the request carries that token.
TokenEffectNoCheck(changed, token, fetches) ==
    IF changed THEN Append(fetches, token) ELSE fetches
TokenEffect(changed, token, fetches) ==
    IF changed /\ token # "" THEN Append(fetches, token) ELSE fetches

\* The page is opened: token is restored from localStorage and the effect
\* has run.
DashboardInit ==
    /\ dVersion \in {"analytics", "basic"}
    /\ dStored \in AuthTokens \cup {""}
    /\ dToken = dStored
    /\ dUsername = ""
    /\ dPassword = ""
    /\ dError = ""
    /\ dEvents = <<>>
    /\ dNewEvent = DefaultNewEvent
    /\ dActiveView = "events"
    /\ dSelectedEvent = ""
    /\ dAnalytics = NoAnalytics
    /\ dLogins = 0
    /\ dFetches = TokenEffect(TRUE, dToken, <<>>)
    /\ dCreates = <<>>
    /\ dLoads = <<>>

\* What the App renders.
DashboardView ==
    IF dToken = "" THEN "login"
    ELSE IF dVersion = "basic" \/ dActiveView = "events" THEN "events"
    ELSE IF dAnalytics = NoAnalytics THEN "analytics loading"
    ELSE "analytics"

notDashboard == <<beVars, gVars, rVars, sVars, uVars>>

\* The login form's inputs.
DashSetCredentials ==
    /\ DashboardView = "login"
    /\ \E u \in {"", "admin"}, pw \in {"", "secret"} :
          /\ dUsername' = u
          /\ dPassword' = pw
    /\ UNCHANGED <<dVersion, dToken, dStored, dError, dEvents, dNewEvent,
                   dAnalyticsVars, dLogins, dFetches, dCreates, dLoads>>
    /\ UNCHANGED notDashboard

\* handleLogin up to its await (both inputs are `required`).
DashLoginSubmit ==
    /\ DashboardView = "login"
    /\ RequiredFilled(<<dUsername, dPassword>>)
    /\ dLogins + Len(dFetches) < MaxLogins
    /\ dError' = ""
    /\ dLogins' = dLogins + 1
    /\ UNCHANGED <<dVersion, dToken, dStored, dForm, dEvents, dNewEvent,
                   dAnalyticsVars, dFetches, dCreates, dLoads>>
    /\ UNCHANGED notDashboard

\* handleLogin after its await, given the response r.
OnLoginResponseTokenAlways(r) ==
    /\ dStored' = r.token
    /\ dToken' = r.token
    /\ dPassword' = ""
    /\ dFetches' = TokenEffect(r.token # dToken, r.token, dFetches)
    /\ IF r.ok THEN UNCHANGED dError
       ELSE dError' = OrDefault(r.error, "Credenciais invalidas")
OnLoginResponse(r) ==
    IF r.ok
    THEN /\ dStored' = r.token
         /\ dToken' = r.token
         /\ dPassword' = ""
         /\ dFetches' = TokenEffect(r.token # dToken, r.token, dFetches)
         /\ UNCHANGED dError
    ELSE /\ dError' = OrDefault(r.error, "Credenciais invalidas")
         /\ UNCHANGED <<dStored, dToken, dPassword, dFetches>>

\* A login request is answered with OK.
DashLoginAccepted ==
    /\ dLogins > 0
    /\ dLogins' = dLogins - 1
    /\ \E r \in {x \in LoginResponses : x.ok} : OnLoginResponse(r)
    /\ UNCHANGED <<dVersion, dUsername, dEvents, dNewEvent, dAnalyticsVars,
                   dCreates, dLoads>>
    /\ UNCHANGED notDashboard

\* A login request is answered with a non-OK status.
DashLoginRejected ==
    /\ dLogins > 0
    /\ dLogins' = dLogins - 1
    /\ \E r \in {x \in LoginResponses : ~x.ok} : OnLoginResponse(r)
    /\ UNCHANGED <<dVersion, dUsername, dEvents, dNewEvent, dAnalyticsVars,
                   dCreates, dLoads>>
    /\ UNCHANGED notDashboard

\* handleLogin's catch: a login request fails to connect.
DashLoginFailed ==
    /\ dLogins > 0
    /\ dLogins' = dLogins - 1
    /\ dError' = "Erro de conexao"
    /\ UNCHANGED <<dVersion, dToken, dStored, dForm, dEvents, dNewEvent,
                   dAnalyticsVars, dFetches, dCreates, dLoads>>
    /\ UNCHANGED notDashboard

\* fetchEvents after its await: the list arrives.
DashFetchAnswered ==
    /\ \E i \in 1..Len(dFetches), l \in EventLists :
          /\ dFetches' = RemoveAt(dFetches, i)
          /\ dEvents' = l
    /\ UNCHANGED <<dVersion, dToken, dStored, dForm, dError, dNewEvent,
                   dAnalyticsVars, dLogins, dCreates, dLoads>>
    /\ UNCHANGED notDashboard

\* Error strings a non-OK answer to GET /api/events carries.
FetchErrors == {"", "unauthorized"}

\* fetchEvents after its await, given a non-OK response whose body carries
\* the error e: the handler throws before it reads the body.
FetchEventsRejected(e) ==
    /\ \E i \in 1..Len(dFetches) : dFetches' = RemoveAt(dFetches, i)
    /\ dError' = "Nao foi possivel obter os eventos"
    /\ UNCHANGED <<dVersion, dToken, dStored, dForm, dEvents, dNewEvent,
                   dAnalyticsVars, dLogins, dCreates, dLoads>>
    /\ UNCHANGED notDashboard

DashFetchRejected == \E e \in FetchErrors : FetchEventsRejected(e)

\* fetchEvents' catch: a non-OK status, or no connection.
DashFetchFailed ==
    /\ \E i \in 1..Len(dFetches) : dFetches' = RemoveAt(dFetches, i)
    /\ dError' = "Nao foi possivel obter os eventos"
    /\ UNCHANGED <<dVersion, dToken, dStored, dForm, dEvents, dNewEvent,
                   dAnalyticsVars, dLogins, dCreates, dLoads>>
    /\ UNCHANGED notDashboard

\* The create-event form's name input.
DashSetNewEvent ==
    /\ DashboardView = "events"
    /\ \E n \in {"", "Festa"} : dNewEvent' = [dNewEvent EXCEPT !.name = n]
    /\ UNCHANGED <<dVersion, dToken, dStored, dForm, dError, dEvents,
                   dAnalyticsVars, dLogins, dFetches, dCreates, dLoads>>
    /\ UNCHANGED notDashboard

\* handleCreateEvent up to its await (the name input is `required`).
DashCreateSubmit ==
    /\ DashboardView = "events"
    /\ RequiredFilled(<<dNewEvent.name>>)
    /\ Len(dCreates) < MaxCreates
    /\ Len(dEvents) + Len(dCreates) < MaxListed
    /\ dError' = ""
    /\ dCreates' = Append(dCreates, [bearer |-> dToken, body |-> dNewEvent])
    /\ UNCHANGED <<dVersion, dToken, dStored, dForm, dEvents, dNewEvent,
                   dAnalyticsVars, dLogins, dFetches, dLoads>>
    /\ UNCHANGED notDashboard

\* handleCreateEvent after its await, given the response r to the i-th
\* request in flight.
OnCreateResponseReplacesList(i, r) ==
    /\ dCreates' = RemoveAt(dCreates, i)
    /\ IF r.ok
       THEN /\ dEvents' = <<r.id>>
            /\ dNewEvent' = DefaultNewEvent
            /\ UNCHANGED dError
       ELSE /\ dError' = OrDefault(r.error, "Nao foi possivel criar o evento")
            /\ UNCHANGED <<dEvents, dNewEvent>>
    /\ UNCHANGED <<dVersion, dToken, dStored, dForm, dAnalyticsVars,
                   dLogins, dFetches, dLoads>>
    /\ UNCHANGED notDashboard
OnCreateResponse(i, r) ==
    /\ dCreates' = RemoveAt(dCreates, i)
    /\ IF r.ok
       THEN /\ dEvents' = Append(dEvents, r.id)
            /\ dNewEvent' = DefaultNewEvent
            /\ UNCHANGED dError
       ELSE /\ dError' = OrDefault(r.error, "Nao foi possivel criar o evento")
            /\ UNCHANGED <<dEvents, dNewEvent>>
    /\ UNCHANGED <<dVersion, dToken, dStored, dForm, dAnalyticsVars,
                   dLogins, dFetches, dLoads>>
    /\ UNCHANGED notDashboard

DashCreateAnswered ==
    \E i \in 1..Len(dCreates), r \in CreateResponses : OnCreateResponse(i, r)

\* handleCreateEvent's catch.
DashCreateFailed ==
    /\ \E i \in 1..Len(dCreates) : dCreates' = RemoveAt(dCreates, i)
    /\ dError' = "Erro ao criar evento"
    /\ UNCHANGED <<dVersion, dToken, dStored, dForm, dEvents, dNewEvent,
                   dAnalyticsVars, dLogins, dFetches, dLoads>>
    /\ UNCHANGED notDashboard

\* logout ("Sair": in the event list, and in the analytics view once the
\* analytics are there).
Logout ==
    /\ dStored' = ""
    /\ dToken' = ""
    /\ dEvents' = <<>>
    /\ IF dVersion = "analytics"
       THEN /\ dActiveView' = "events"
            /\ dSelectedEvent' = ""
            /\ dAnalytics' = NoAnalytics
       ELSE UNCHANGED dAnalyticsVars

DashLogout ==
    /\ DashboardView \in {"events", "analytics"}
    /\ Logout
    /\ UNCHANGED <<dVersion, dForm, dError, dNewEvent, dLogins, dFetches,
                   dCreates, dLoads>>
    /\ UNCHANGED notDashboard

\* The ids of the events the list shows.
Listed == {dEvents[i] : i \in 1..Len(dEvents)}

\* loadAnalytics up to its first await ("Ver").
DashLoadAnalyticsKeepsOld ==
    /\ dVersion = "analytics"
    /\ DashboardView = "events"
    /\ Len(dLoads) < MaxLoads
    /\ \E e \in Listed :
          /\ UNCHANGED dAnalytics
          /\ dSelectedEvent' = e
          /\ dActiveView' = "analytics"
          /\ dLoads' = Append(dLoads, [event |-> e, stage |-> "event",
                                       evtData |-> [id |-> "", ok |-> FALSE],
                                       bearer |-> dToken])
    /\ UNCHANGED <<dVersion, dToken, dStored, dForm, dError, dEvents,
                   dNewEvent, dLogins, dFetches, dCreates>>
    /\ UNCHANGED notDashboard
DashLoadAnalytics ==
    /\ dVersion = "analytics"
    /\ DashboardView = "events"
    /\ Len(dLoads) < MaxLoads
    /\ \E e \in Listed :
          /\ dAnalytics' = NoAnalytics
          /\ dSelectedEvent' = e
          /\ dActiveView' = "analytics"
          /\ dLoads' = Append(dLoads, [event |-> e, stage |-> "event",
                                       evtData |-> [id |-> "", ok |-> FALSE],
                                       bearer |-> dToken])
    /\ UNCHANGED <<dVersion, dToken, dStored, dForm, dError, dEvents,
                   dNewEvent, dLogins, dFetches, dCreates>>
    /\ UNCHANGED notDashboard

\* The error string the body of a non-OK answer to GET /api/events/<id>
\* carries.
EventBodyError(body) == IF body.ok THEN "" ELSE "event not found"

\* loadAnalytics between its awaits: the body of the answer to the i-th
\* call's first request has arrived (res.ok is never read).
LoadEventAnswered(i, body) ==
    /\ dLoads[i].stage = "event"
    /\ body.ok => body.id = dLoads[i].event
    /\ dLoads' = [dLoads EXCEPT ![i] =
                      [@ EXCEPT !.stage = "uploads", !.evtData = body]]
    /\ UNCHANGED <<dVersion, dToken, dStored, dForm, dError, dEvents,
                   dNewEvent, dAnalyticsVars, dLogins, dFetches, dCreates>>
    /\ UNCHANGED notDashboard

DashLoadEventAnswered ==
    \E i \in 1..Len(dLoads), body \in EventBodies : LoadEventAnswered(i, body)

\* loadAnalytics after its awaits: the uploads array has arrived.
DashLoadUploadsAnswered ==
    /\ \E i \in 1..Len(dLoads), n \in UploadCounts :
          /\ dLoads[i].stage = "uploads"
          /\ dLoads' = RemoveAt(dLoads, i)
          /\ dAnalytics' = [isNull |-> FALSE, event |-> dLoads[i].evtData,
                            totalUploads |-> n]
    /\ UNCHANGED <<dVersion, dToken, dStored, dForm, dError, dEvents,
                   dNewEvent, dActiveView, dSelectedEvent, dLogins, dFetches,
                   dCreates>>
    /\ UNCHANGED notDashboard

\* loadAnalytics' catch: a request fails, or a body is not what the code
\* reads.
DashLoadFailed ==
    /\ \E i \in 1..Len(dLoads) : dLoads' = RemoveAt(dLoads, i)
    /\ dAnalytics' = NoAnalytics
    /\ UNCHANGED <<dVersion, dToken, dStored, dForm, dError, dEvents,
                   dNewEvent, dActiveView, dSelectedEvent, dLogins, dFetches,
                   dCreates>>
    /\ UNCHANGED notDashboard

\* "Voltar" in the analytics view.
DashBack ==
    /\ DashboardView = "analytics"
    /\ dActiveView' = "events"
    /\ UNCHANGED <<dVersion, dToken, dStored, dForm, dError, dEvents,
                   dNewEvent, dSelectedEvent, dAnalytics, dLogins, dFetches,
                   dCreates, dLoads>>
    /\ UNCHANGED notDashboard

vars == <<beVars, feVars>>

FrontEndsInit ==
    /\ GalleryInit
    /\ RegisterClosed
    /\ SlideshowClosed
    /\ RouteClosed
    /\ DashboardClosed

(***************************************************************************)
(* Spec: the backend API called by arbitrary clients.                      *)
(***************************************************************************)
Init == BackendInit /\ FrontEndsInit

Next == ApiCreateEvent \/ ApiUpload \/ ApiRegister \/ ApiGallery

Spec == Init /\ [][Next]_vars

(***************************************************************************)
(* SpecGallery: a gallery page against the backend.                        *)
(***************************************************************************)
NextGallery ==
    \/ ApiCreateEvent
    \/ GalleryEnvUpload
    \/ GalleryEnvRegister
    \/ GalleryOpen
    \/ GalleryFetchAnswered
    \/ GalleryFetchFailed

SpecGallery == Init /\ [][NextGallery]_vars

(***************************************************************************)
(* SpecRegister: registration.  Either no registration page is open and    *)
(* arbitrary clients call the API, or a registration form (camera or file) *)
(* runs against every response the backend may give.                       *)
(***************************************************************************)
InitRegister ==
    /\ BackendInit
    /\ GalleryInit
    /\ SlideshowClosed
    /\ RouteClosed
    /\ DashboardClosed
    /\ (RegisterClosed \/ CameraFormInit \/ FileFormInit)

RegisterApiCreateEvent == rForm = "none" /\ ApiCreateEvent
RegisterApiRegister == rForm = "none" /\ ApiRegister

NextRegister ==
    \/ RegisterApiCreateEvent
    \/ RegisterApiRegister
    \/ FetchEventAnswered
    \/ FetchEventFailed
    \/ CameraSetPhone
    \/ CameraPhoneSubmit
    \/ CameraToggle
    \/ GetUserMediaResolved
    \/ GetUserMediaRejected
    \/ CameraCapture
    \/ CameraBlobReady
    \/ CameraRegisterAnswered
    \/ CameraRegisterFailed
    \/ FileSetPhone
    \/ FileSetSelfie
    \/ FileSubmit
    \/ FileRegisterAnswered
    \/ FileRegisterFailed

SpecRegister == InitRegister /\ [][NextRegister]_vars

(***************************************************************************)
(* SpecSlideshow: the slideshow page against every response; the interval  *)
(* timer keeps firing while it is set.                                     *)
(***************************************************************************)
InitSlideshow ==
    /\ BackendInit
    /\ GalleryInit
    /\ RegisterClosed
    /\ RouteClosed
    /\ DashboardClosed
    /\ SlideshowInit

NextSlideshow ==
    \/ SlideshowFetchMedia
    \/ SlideshowFetchAnswered
    \/ SlideshowFetchFailed
    \/ SlideshowTick

SpecSlideshow ==
    InitSlideshow /\ [][NextSlideshow]_vars /\ WF_vars(SlideshowTick)

(***************************************************************************)
(* SpecRoute: the microsite App at every URL.                              *)
(***************************************************************************)
(***************************************************************************)
(* The dashboard against any responses of the backend.                     *)
(***************************************************************************)
InitDashboard ==
    /\ BackendInit
    /\ GalleryInit
    /\ RegisterClosed
    /\ SlideshowClosed
    /\ RouteClosed
    /\ DashboardInit

NextDashboard ==
    \/ DashSetCredentials
    \/ DashLoginSubmit
    \/ DashLoginAccepted
    \/ DashLoginRejected
    \/ DashLoginFailed
    \/ DashFetchAnswered
    \/ DashFetchRejected
    \/ DashFetchFailed
    \/ DashSetNewEvent
    \/ DashCreateSubmit
    \/ DashCreateAnswered
    \/ DashCreateFailed
    \/ DashLogout
    \/ DashLoadAnalytics
    \/ DashLoadEventAnswered
    \/ DashLoadUploadsAnswered
    \/ DashLoadFailed
    \/ DashBack

SpecDashboard == InitDashboard /\ [][NextDashboard]_vars

InitRoute ==
    /\ BackendInit
    /\ GalleryInit
    /\ RegisterClosed
    /\ SlideshowClosed
    /\ DashboardClosed
    /\ RouteInit

NextRoute == RouteRender

SpecRoute == InitRoute /\ [][NextRoute]_vars

(***************************************************************************)
(* Claims about the backend.                                               *)
(***************************************************************************)
BackendData == <<events, participants, uploads, matches>>

\* C1: no two distinct participants hold the same gallery token, and every
\* issued token resolves to exactly one participant.
C1_TokensUnique ==
    /\ \A p, q \in 1..Len(participants) :
           p # q => participants[p].token # participants[q].token
    /\ \A t \in IssuedTokens :
           Cardinality({p \in 1..Len(participants) :
                           participants[p].token = t}) = 1

\* Two participants registered, in the same event or in different ones.
C1_Witness ==
    /\ Len(participants) >= 2
    /\ participants[1].event = participants[2].event
    /\ participants[1].phone = participants[2].phone

\* C3: a registration naming an event that does not exist returns an error
\* and leaves events, participants (hence tokens), uploads and matches
\* unchanged.
C3_RegisterUnknownEventFails ==
    [][(req'.op = "register" /\ req'.event \notin events)
          => (~resp'.ok /\ resp'.error # "" /\ BackendData' = BackendData)]_vars

\* An otherwise valid registration for a missing event was refused while
\* another event and a participant existed.
C3_Witness ==
    /\ req.op = "register"
    /\ req.event \in EventIds \ events
    /\ req.phone # ""
    /\ req.selfie # NoFile
    /\ resp = ErrorResponse(404, "event not found")
    /\ events # {}
    /\ Len(participants) >= 1

\* C4: an upload whose event identifier is missing or names no existing
\* event is rejected and leaves the stored uploads unchanged.
C4_UploadWithoutEventRejected ==
    [][(req'.op = "upload" /\ req'.event \notin events)
          => (~resp'.ok /\ resp'.error # "" /\ uploads' = uploads)]_vars

\* An upload for an identifier that names no event was refused while
\* uploads of an existing event were stored.
C4_Witness ==
    /\ req.op = "upload"
    /\ req.event \in EventIds \ events
    /\ ~resp.ok
    /\ Len(uploads) >= 1

\* C7: every upload matched to a participant belongs to the participant's
\* event.
C7_GallerySameEvent ==
    \A p \in 1..Len(participants) :
        \A u \in MatchedTo(p) : uploads[u].event = participants[p].event

\* A participant has a matched upload while an upload of another event is
\* stored.
C7_Witness ==
    \E p \in 1..Len(participants) :
        /\ MatchedTo(p) # {}
        /\ \E u \in 1..Len(uploads) : uploads[u].event # participants[p].event

(***************************************************************************)
(* Claims about gallery retrieval.                                         *)
(***************************************************************************)
\* The participant a token resolves to.
ParticipantOf(t) ==
    CHOOSE p \in 1..Len(participants) : participants[p].token = t

\* The list l holds exactly the uploads of the set S, each once.
ListsExactly(l, S) ==
    /\ {l[i] : i \in 1..Len(l)} = S
    /\ Len(l) = Cardinality(S)

\* C2: for an issued token, gallery retrieval answers with exactly the
\* uploads matched to the token's participant, and the Gallery component
\* that loaded without an error holds exactly those uploads (none while
\* nothing is matched, never one matched only to another participant).
C2_GalleryExactlyMatched ==
    /\ (req.op = "gallery" /\ req.token \in IssuedTokens)
          => (resp.ok /\ ListsExactly(resp.media, MatchedTo(ParticipantOf(req.token))))
    /\ (gFetch = "done" /\ gError = "")
          => /\ gToken \in IssuedTokens
             /\ ListsExactly(gMedia, MatchedTo(ParticipantOf(gToken)))

\* A gallery page shows its participant's matched uploads while another
\* participant has none and a third upload is matched to nobody.
C2_Witness ==
    /\ gFetch = "done"
    /\ GalleryView = "media"
    /\ gMedia # <<>>
    /\ \E q \in 1..Len(participants) : MatchedTo(q) = {}
    /\ \E u \in 1..Len(uploads) : u \notin MatchedTo(ParticipantOf(gToken))

\* C5: gallery retrieval with a token that was never issued answers 404
\* with an error, not a media list; the Gallery component then is no longer
\* loading, shows a non-empty error text and keeps its media list empty.
C5_UnknownTokenNotFound ==
    [][/\ (req'.op = "gallery" /\ req'.token \notin IssuedTokens)
           => (~resp'.ok /\ resp'.status = 404 /\ resp'.media = <<>>)
       /\ (gFetch = "pending" /\ gFetch' = "done" /\ gToken \notin IssuedTokens)
           => (GalleryView' = "error" /\ gError' # "" /\ gMedia' = <<>>)]_vars

\* The page of a token nobody holds got the backend's 404 while other
\* tokens were issued.
C5_Witness ==
    /\ gFetch = "done"
    /\ gToken \notin IssuedTokens
    /\ IssuedTokens # {}
    /\ req.op = "gallery"
    /\ gError = "gallery not found"

(***************************************************************************)
(* Claims about registration requests.                                     *)
(***************************************************************************)
\* C6: the backend refuses a registration that lacks a phone or a selfie
\* with a validation error and creates no participant (hence no token);
\* and every /register request a registration form has sent carries a
\* non-empty phone and a selfie file.
C6_PhoneAndSelfieRequired ==
    /\ [][(req'.op = "register" /\ (req'.phone = "" \/ req'.selfie = NoFile))
             => (/\ ~resp'.ok
                 /\ resp'.status = 400
                 /\ resp'.error # ""
                 /\ participants' = participants)]_vars
    /\ [](\A i \in 1..Len(rRequests) :
             rRequests[i].phone # "" /\ rRequests[i].selfie # NoFile)

\* The camera form has a request in flight after a capture whose blob was
\* null sent none.
C6_Witness ==
    /\ rForm = "camera"
    /\ Len(rRequests) = 1
    /\ rCaptures = 2
    /\ rBlob = [none |-> 0, image |-> 0]
    /\ rMessage = "Erro ao capturar selfie"

(***************************************************************************)
(* Claims about the slideshow.                                             *)
(***************************************************************************)
\* C8: with more than one media item the index stays within 0..n-1, every
\* change of the index is a step from i to (i+1) mod n, and, the timer
\* being fair, every media item is displayed again and again.
C8_SlideshowCycles ==
    /\ [](Len(sMedia) > 1 => sCurrent \in 0..(Len(sMedia) - 1))
    /\ [][sCurrent' # sCurrent
            => (/\ Len(sMedia) > 1
                /\ sMedia' = sMedia
                /\ sCurrent' = (sCurrent + 1) % Len(sMedia)
                /\ sCurrent' = IF sCurrent = Len(sMedia) - 1 THEN 0
                               ELSE sCurrent + 1)]_vars
    /\ \A u \in 1..MaxMedia :
          []((Len(sMedia) > 1 /\ \E i \in 1..Len(sMedia) : sMedia[i] = u)
                => <>(SlideshowShown = u))

\* The last of four items, listed out of upload order, is displayed.
C8_Witness ==
    /\ Len(sMedia) = 4
    /\ sMedia[1] > sMedia[4]
    /\ sCurrent = 3
    /\ SlideshowShown = sMedia[4]

(***************************************************************************)
(* Claims about the microsite's routing.                                   *)
(***************************************************************************)
\* The pathname is /gallery/<token>..., whatever separators are repeated:
\* its first word stands alone and is "gallery", and a word follows it.
HasGalleryPath(path) ==
    \E i, j \in 1..Len(path) :
        /\ i + 1 < j
        /\ path[i] = "gallery"
        /\ \A k \in 1..(i - 1) : path[k] = "/"
        /\ \A k \in (i + 1)..(j - 1) : path[k] = "/"
        /\ path[j] # "/"

\* The first `event` parameter of the query string has a non-empty value.
HasEventParam(search) ==
    \E i \in 1..Len(search) :
        /\ search[i].key = "event"
        /\ search[i].value # ""
        /\ \A k \in 1..(i - 1) : search[k].key # "event"

\* C9: App returns exactly one of the gallery view, the registration view
\* and the landing text: the gallery view for a gallery path (also when an
\* event parameter is present), else the registration view for an event
\* parameter, else the landing text; /register?event=e1 gives the
\* registration view of e1 and /gallery/tok the gallery view of tok.
C9_Routing ==
    uView # "none" =>
        /\ uView \in {"gallery", "register", "landing"}
        /\ uView = "gallery" <=> HasGalleryPath(uPath)
        /\ uView = "register" <=>
               (~HasGalleryPath(uPath) /\ HasEventParam(uSearch))
        /\ uView = "landing" <=>
               (~HasGalleryPath(uPath) /\ ~HasEventParam(uSearch))
        /\ (uPath = <<"/", "register">>
               /\ uSearch = <<[key |-> "event", value |-> "e1"]>>)
              => (uView = "register" /\ uProp = <<"e1">>)
        /\ uPath = <<"/", "gallery", "/", "tok">>
              => (uView = "gallery" /\ uProp = <<"tok">>)

\* A URL with both a gallery path and an event parameter got the gallery
\* view.
C9_Witness ==
    /\ uPath = <<"/", "gallery", "/", "tok">>
    /\ uSearch = <<[key |-> "event", value |-> "e1"]>>
    /\ uView = "gallery"
    /\ uProp = <<"tok">>
(***************************************************************************)
(* C10: the dashboard's token becomes non-null only when a login request   *)
(* is answered with OK (and is then also in localStorage under tp_token),  *)
(* or at start-up from localStorage; it becomes null only by logout, which *)
(* also removes tp_token; a login that is rejected or fails leaves token   *)
(* and tp_token unchanged and sets a non-empty error.  The view is the     *)
(* login view exactly while token is null: a failed login leaves the view  *)
(* as it was.                                                              *)
(***************************************************************************)
C10_TokenLifecycle ==
    /\ [][/\ (dToken = "" /\ dToken' # "")
              => (DashLoginAccepted /\ dStored' = dToken')
          /\ (dToken # "" /\ dToken' = "")
              => (DashLogout /\ dStored' = "")
          /\ (DashLoginRejected \/ DashLoginFailed)
              => /\ dToken' = dToken
                 /\ dStored' = dStored
                 /\ dError' # ""
                 /\ DashboardView' = DashboardView
          /\ (DashboardView' = "login") <=> (dToken' = "")]_vars

\* A login has failed and the error is set.
C10_Witness ==
    /\ dToken = ""
    /\ dError = "Credenciais invalidas"
    /\ dLogins = 0

\* C10 as stated: a failed login keeps the login view.
C10_FailedLoginKeepsLoginView ==
    [][(DashLoginRejected \/ DashLoginFailed)
          => /\ dToken' = dToken
             /\ dStored' = dStored
             /\ dError' # ""
             /\ DashboardView' = "login"]_vars
(***************************************************************************)
(* C11: for the dashboard's requests (login, event list, create event,     *)
(* analytics), a non-OK response that carries an error string leaves       *)
(* exactly that string as the error the views render, and a connection     *)
(* failure leaves a non-empty failure message there.                       *)
(***************************************************************************)
C11_ErrorsDisplayedVerbatim ==
    [][/\ \A r \in LoginResponses :
             (~r.ok /\ r.error # "" /\ dLogins > 0 /\ OnLoginResponse(r))
                => dError' = r.error
       /\ \A e \in FetchErrors \ {""} :
             FetchEventsRejected(e) => dError' = e
       /\ \A i \in 1..Len(dCreates), r \in CreateResponses :
             (~r.ok /\ r.error # "" /\ OnCreateResponse(i, r))
                => dError' = r.error
       /\ \A i \in 1..Len(dLoads), body \in EventBodies :
             (~body.ok /\ LoadEventAnswered(i, body))
                => dError' = EventBodyError(body)
       /\ (DashLoginFailed \/ DashFetchFailed \/ DashCreateFailed
               \/ DashLoadFailed)
             => dError' # ""]_vars
(***************************************************************************)
(* C12: in the camera form, a /register request that settles leaves the    *)
(* step 'done' and the done view's text a success message (the backend's   *)
(* message or the default text) exactly when the response was OK, and a    *)
(* non-empty error text otherwise; once the step is 'done', only a         *)
(* /register request that settles changes whether the text is a success    *)
(* message.                                                                *)
(***************************************************************************)
IsSuccessText(t) ==
    t \in {DefaultDoneText} \cup {r.message : r \in {x \in RegisterResponses : x.ok}}

C12_DoneTextTellsOutcome ==
    [][/\ \A i \in 1..Len(rRequests), r \in RegisterResponses :
             OnRegisterResponse(i, r)
                => /\ rStep' = "done"
                   /\ DoneText' # ""
                   /\ IsSuccessText(DoneText') <=> r.ok
       /\ CameraRegisterFailed
             => (rStep' = "done" /\ DoneText' # "" /\ ~IsSuccessText(DoneText'))
       /\ (rForm = "camera" /\ rStep = "done"
              /\ IsSuccessText(DoneText') # IsSuccessText(DoneText))
             => (CameraRegisterAnswered \/ CameraRegisterFailed)]_vars
(***************************************************************************)
(* C13: when a create-event request is answered OK, the returned event is  *)
(* appended to the event list (the earlier entries kept in order, the list *)
(* longer by one) and newEvent is reset to its defaults; when it is        *)
(* answered non-OK or fails to connect, the list and newEvent are          *)
(* unchanged and the error is non-empty.                                   *)
(***************************************************************************)
C13_CreateEventFrame ==
    [][/\ \A i \in 1..Len(dCreates), r \in CreateResponses :
             OnCreateResponse(i, r)
                => IF r.ok
                   THEN /\ Len(dEvents') = Len(dEvents) + 1
                        /\ SubSeq(dEvents', 1, Len(dEvents)) = dEvents
                        /\ dEvents'[Len(dEvents')] = r.id
                        /\ dNewEvent' = DefaultNewEvent
                   ELSE /\ dEvents' = dEvents
                        /\ dNewEvent' = dNewEvent
                        /\ dError' # ""
       /\ DashCreateFailed
             => (dEvents' = dEvents /\ dNewEvent' = dNewEvent /\ dError' # "")]_vars

\* A created event was appended to a list that already had an entry, and
\* the form is back at its defaults.
C13_Witness ==
    /\ dEvents = <<"e1", "e2">>
    /\ dNewEvent = DefaultNewEvent
    /\ dCreates = <<>>
(***************************************************************************)
(* C14: the camera form's step only moves phone -> camera -> done.  It     *)
(* leaves 'phone' only by a phone submit with a non-empty phone, becomes   *)
(* 'done' only in the step in which a /register request settles (answered *)
(* or failed), never moves backwards, and no step changes it once it is    *)
(* 'done'.                                                                 *)
(***************************************************************************)
C14_StepOrder ==
    [][/\ (rStep = "phone" /\ rStep' # "phone")
             => (rStep' = "camera" /\ rPhone # "" /\ CameraPhoneSubmit)
       /\ (rStep = "camera" /\ rStep' # "camera")
             => /\ rStep' = "done"
                /\ Len(rRequests') = Len(rRequests) - 1
                /\ CameraRegisterAnswered \/ CameraRegisterFailed
       /\ rStep = "done" => rStep' = "done"]_vars

\* The form went through its three steps and nothing is pending.
C14_Witness ==
    /\ rForm = "camera"
    /\ rStep = "done"
    /\ rPhone # ""
    /\ rRequests = <<>>
    /\ rBlob = [none |-> 0, image |-> 0]
    /\ rGum = 0
(***************************************************************************)
(* C15: in a registration form (camera or file) at most one /register      *)
(* request is in flight at any time.                                       *)
(***************************************************************************)
C15_SingleRegisterInFlight == Len(rRequests) <= 1
(***************************************************************************)
(* C16: in the camera form at most one acquired stream is live (acquired   *)
(* and not stopped) at any time, and a live stream is the one streamRef    *)
(* points to: every stream that streamRef no longer points to has been     *)
(* stopped.                                                                *)
(***************************************************************************)
C16_SingleLiveStream ==
    /\ Cardinality(rLive) <= 1
    /\ \A stream \in rLive : stream = rStreamRef
(***************************************************************************)
(* C17: once the camera form's step is 'done' and no asynchronous call is  *)
(* pending (no getUserMedia, no toBlob callback, no /register request), no *)
(* stream the form acquired is live.                                       *)
(***************************************************************************)
RegisterQuiet ==
    /\ rGum = 0
    /\ rBlob = [none |-> 0, image |-> 0]
    /\ rRequests = <<>>

C17_NoStreamLeftLive ==
    (rForm = "camera" /\ rStep = "done" /\ RegisterQuiet) => rLive = {}
(***************************************************************************)
(* C18: the camera form leaves the phone step, and sends a /register       *)
(* request, only for an event whose lookup succeeded: never while the      *)
(* lookup is loading and never with eventError set.                        *)
(***************************************************************************)
C18_RegisterGatedByLookup ==
    (rForm = "camera" /\ (rStep # "phone" \/ rRequests # <<>>))
        => (~rLoadingEvent /\ rEventError = "")
(***************************************************************************)
(* C19: while the dashboard's token is null (before the first login, and   *)
(* after a logout until the next successful login) its event list is empty *)
(* and its analytics are null, whatever responses arrive.                  *)
(***************************************************************************)
C19_LoggedOutHoldsNoData ==
    (dVersion # "none" /\ dToken = "")
        => (dEvents = <<>> /\ dAnalytics = NoAnalytics)
(***************************************************************************)
(* C20: whenever the analytics view is active with non-null analytics,     *)
(* analytics.event is what was fetched for selectedEvent (when it is an    *)
(* event, it is the selected one), and no loadAnalytics call is still in   *)
(* progress that could replace it.                                         *)
(***************************************************************************)
C20_AnalyticsOfSelectedEvent ==
    (dVersion = "analytics" /\ dActiveView = "analytics"
        /\ dAnalytics # NoAnalytics)
        => /\ dAnalytics.event.ok => dAnalytics.event.id = dSelectedEvent
           /\ dLoads = <<>>

\* The analytics of the created event e2 are shown while e1 is listed too.
C20_Witness ==
    /\ DashboardView = "analytics"
    /\ dEvents = <<"e1", "e2">>
    /\ dSelectedEvent = "e2"
    /\ dAnalytics.event.ok
(***************************************************************************)
(* C21: the dashboard is never left in the analytics view without an       *)
(* available action: whenever it shows the loading text of the analytics   *)
(* view (which has no button), a loadAnalytics call is still in progress   *)
(* that will end it.                                                       *)
(***************************************************************************)
C21_AnalyticsViewNeverStuck ==
    DashboardView = "analytics loading" => dLoads # <<>>
(***************************************************************************)
(* C22: a slideshow opened without an event parameter sends no request,    *)
(* keeps its media list empty, never has a timer, renders a text and not   *)
(* an item, and has its error set once fetchMedia has run; in every        *)
(* slideshow a timer is set only while the media list has more than one    *)
(* item, and at most one timer is set at a time.                           *)
(***************************************************************************)
C22_SlideshowTimerAndNoEvent ==
    /\ sEventId = NoEvent
          => /\ sFetch # "pending"
             /\ sMedia = <<>>
             /\ sTimer = 0
             /\ SlideshowShown = 0
             /\ sFetch = "done" => sError = "Nenhum evento especificado"
    /\ sTimer > 0 => Len(sMedia) > 1
    /\ sTimer <= 1

\* The page without an event parameter after its effect has run.
C22_Witness ==
    /\ sEventId = NoEvent
    /\ sFetch = "done"
    /\ sError # ""
(***************************************************************************)
(* C23: every event-list, create-event and analytics request of the        *)
(* dashboard carries a non-null bearer token and is issued while the token *)
(* is non-null, never from the login view: an event-list, create-event or  *)
(* first analytics request carries the token current when it is issued,    *)
(* and the second analytics request is issued with the token loadAnalytics *)
(* was called with.                                                        *)
(***************************************************************************)
Last(s) == s[Len(s)]

\* The bearer tokens of the requests in flight.
BearersInFlight ==
    {dFetches[i] : i \in 1..Len(dFetches)}
    \cup {dCreates[i].bearer : i \in 1..Len(dCreates)}
    \cup {dLoads[i].bearer : i \in 1..Len(dLoads)}

\* A step that issues an event-list, create-event or first analytics
\* request does so with the current token, outside the login view.
IssuesWithCurrentToken ==
    /\ Len(dFetches') > Len(dFetches)
          => (Last(dFetches') = dToken' /\ DashboardView' # "login")
    /\ Len(dCreates') > Len(dCreates)
          => (Last(dCreates').bearer = dToken /\ DashboardView = "events")
    /\ Len(dLoads') > Len(dLoads)
          => (Last(dLoads').bearer = dToken /\ DashboardView = "events")

C23_RequestsCarryToken ==
    /\ [](BearersInFlight \subseteq AuthTokens)
    /\ [][/\ IssuesWithCurrentToken
          /\ \A i \in 1..Len(dLoads), body \in EventBodies :
                LoadEventAnswered(i, body)
                   => /\ dToken # ""
                      /\ DashboardView # "login"
                      /\ dLoads'[i].bearer = dLoads[i].bearer]_vars

\* The second analytics request is in flight with the token of the click
\* while a later login has replaced the token.
C23_Witness ==
    \E i \in 1..Len(dLoads) :
        /\ dLoads[i].stage = "uploads"
        /\ dToken # ""
        /\ dLoads[i].bearer # dToken

\* C23 as stated: every request carries the token current when it is issued.
C23_RequestsCarryCurrentToken ==
    [][/\ IssuesWithCurrentToken
       /\ \A i \in 1..Len(dLoads), body \in EventBodies :
             LoadEventAnswered(i, body)
                => (dToken # "" /\ dLoads[i].bearer = dToken)]_vars
====
